---- MODULE Spec2Model ----
(***************************************************************************)
(* A model of the TSP metaheuristics of this repository: the shared        *)
(* distance / 2-opt primitives (common.ts), the nearest-neighbour          *)
(* constructor, tabuSearch, antColony and the scatterSearch variants.      *)
(*                                                                         *)
(* Points are records [id, x, y].  A tour is a sequence of points.  The    *)
(* code indexes arrays from 0; the operators below keep the code's 0-based *)
(* indices in their parameters and add 1 where a sequence is indexed.      *)
(*                                                                         *)
(* Distances are IEEE doubles in the code.  The inputs of the model are    *)
(* point lists whose pairwise Euclidean distances are integers, for which  *)
(* Math.hypot and the sums of calculateTourDistance are exact, so integer  *)
(* arithmetic computes the very numbers the code computes.                 *)
(*                                                                         *)
(* Spec is a run of one engine.  UpdateSpec applies the reference-set      *)
(* update loop of scatterSearch to reference sets of its own, and          *)
(* ExportSpec is the orchestrator's three worker threads exporting their   *)
(* results.                                                                *)
(***************************************************************************)
EXTENDS Integers, Sequences, FiniteSets, TLC

\* ----------------------------------------------------------------------
\* Bounds of the model
\* ----------------------------------------------------------------------
MaxN == 3               \* points per input, for the exhaustively enumerated inputs
MaxGridX == 1           \* x coordinates are 3*a, a \in 0..MaxGridX
MaxGridY == 1           \* y coordinates are 4*b, b \in 0..MaxGridY
MaxIterations == 3      \* largest maxIterations of tabuSearch
MaxTenure == 2          \* largest tabuTenure
MaxGenerations == 2     \* largest iterations of antColony
MaxAnts == 1            \* largest ants of antColony
MaxScatterIterations == 1  \* largest maxIterations of scatterSearch
MaxRefSet == 2          \* largest eliteSolutionsSize / refSetSize
MaxPopulation == 2      \* largest populationSize / candidateSize
MaxShuffleN == 2        \* points per input, for the variants that shuffle the input

VARIABLES
  engine,               \* which engine this run executes
  nodes,                \* tsp.nodes, the input
  params,               \* the numeric arguments of the call
  pc,                   \* position of the run: "start", "generate", "loop", "break", "done", "error"
                        \* ("update" in UpdateSpec, "export" in ExportSpec)
  iter,                 \* loop counter of the engine's main loop
  bestDistance,         \* tabuSearch, antColony, scatterSearch (early-stop variant)
  initialDistance,      \* all engines
  result,               \* the returned object, once pc = "done"
  currentSolution,      \* tabuSearch
  bestSolution,         \* tabuSearch
  tabuList,             \* tabuSearch: Set<string>
  tabuQueue,            \* tabuSearch: string[]
  moves,                \* tabuSearch, history: the move keys accepted so far, oldest first
  antK,                 \* antColony: k, the loop counter of the ants loop
  currentAntTourNodes,  \* antColony: the tour of the last ant
  bestPath,             \* antColony
  pheromones,           \* antColony
  initialSolution,      \* scatterSearch: the nearest-neighbour tour
  candidatePool,        \* scatterSearch (shuffling variants)
  referenceSet,         \* scatterSearch
  newSolutions,         \* scatterSearch
  combined,             \* scatterSearch: the last crossover child, before 2-opt
  pair,                 \* scatterSearch: <<i, k>>, the next pair of the combination loops
  bestTour,             \* scatterSearch (early-stop variant)
  workerPc,             \* worker threads: the position of each algorithm's worker
  outputDirExists,      \* the file system: does assets/results exist
  posted                \* the algorithms whose worker has posted its results

commonVars == <<engine, nodes, params>>

tabuVars == <<currentSolution, bestSolution, tabuList, tabuQueue, moves>>

antVars == <<antK, currentAntTourNodes, bestPath, pheromones>>

scatterVars == <<initialSolution, candidatePool, referenceSet, newSolutions, combined, pair, bestTour>>

exportVars == <<workerPc, outputDirExists, posted>>

vars == <<engine, nodes, params, pc, iter, bestDistance, initialDistance, result,
          currentSolution, bestSolution, tabuList, tabuQueue, moves,
          antK, currentAntTourNodes, bestPath, pheromones,
          initialSolution, candidatePool, referenceSet, newSolutions, combined, pair,
          bestTour, workerPc, outputDirExists, posted>>

\* ----------------------------------------------------------------------
\* common.ts
\* ----------------------------------------------------------------------
Abs(v) == IF v < 0 THEN -v ELSE v

Min(a, b) == IF a < b THEN a ELSE b

Max(a, b) == IF a > b THEN a ELSE b

\* Math.hypot: exact where the result is an integer, which is the case for
\* every input of the model but the squares; otherwise its integer part (see
\* SquareInstances)
Hypot(dx, dy) ==
  IF dy = 0 THEN Abs(dx)
  ELSE IF dx = 0 THEN Abs(dy)
  ELSE CHOOSE r \in 0..(Abs(dx) + Abs(dy)) :
         r * r <= dx * dx + dy * dy /\ dx * dx + dy * dy < (r + 1) * (r + 1)

calculateEuclideanDistance(a, b) == Hypot(a.x - b.x, a.y - b.y)

\* the for loop of calculateTourDistance, from index i on
RECURSIVE SumLegs(_, _)
SumLegs(tour, i) ==
  IF i >= Len(tour) - 1 THEN 0
  ELSE calculateEuclideanDistance(tour[i + 1], tour[i + 2]) + SumLegs(tour, i + 1)

\* mutant: the loop reads one leg too many, so a single point throws as well
calculateTourDistanceThrowsOnSingle(tour) == Len(tour) <= 1

\* calculateTourDistance reads tour[tour.length - 1].x: on an empty tour that
\* is a property of undefined and the call throws a TypeError
calculateTourDistanceThrows(tour) == Len(tour) = 0

calculateTourDistance(tour) ==
  SumLegs(tour, 0) + calculateEuclideanDistance(tour[Len(tour)], tour[1])

\* mutant: the segment is rotated by one place
ReverseRotates(s) == [p \in 1..Len(s) |-> s[(p % Len(s)) + 1]]

\* Array.prototype.reverse
Reverse(s) == [p \in 1..Len(s) |-> s[Len(s) + 1 - p]]

\* mutant: the slice includes position to
SliceInclusive(s, from, to) == SubSeq(s, from + 1, Min(to + 1, Len(s)))

\* Array.prototype.slice(from, to) with 0 <= from
Slice(s, from, to) == SubSeq(s, from + 1, Min(to, Len(s)))

\* mutant: the segment is not reversed
twoOptSwapNoReversal(tour, i, k) == tour

twoOptSwap(tour, i, k) ==
  Slice(tour, 0, i) \o Reverse(Slice(tour, i, k + 1)) \o Slice(tour, k + 1, Len(tour))

\* the array passed as tour, after the call: tour is only read, by slice, and
\* reverse() reverses the copy that slice(i, k + 1) made
tourAfterSwap(tour, i, k) == tour

\* one pass of the nested for loops of twoOptSwapWithBestImprovement, from
\* the pair (i, k) on; the result is <<best, improved>>
RECURSIVE twoOptPass(_, _, _, _)
twoOptPass(best, improved, i, k) ==
  IF i >= Len(best) - 1 THEN <<best, improved>>
  ELSE IF k >= Len(best) THEN twoOptPass(best, improved, i + 1, i + 2)
  ELSE LET newTour == twoOptSwap(best, i, k)
       IN IF calculateTourDistance(newTour) < calculateTourDistance(best)
          THEN twoOptPass(newTour, TRUE, i, k + 1)
          ELSE twoOptPass(tourAfterSwap(best, i, k), improved, i, k + 1)

\* the while (improved) loop
RECURSIVE twoOptWhile(_)
twoOptWhile(best) ==
  LET pass == twoOptPass(best, FALSE, 1, 2)
  IN IF pass[2] THEN twoOptWhile(pass[1]) ELSE pass[1]

\* mutant: one pass of the for loops, whether or not it improved
twoOptSwapWithOnePass(tour) == twoOptPass(tour, FALSE, 1, 2)[1]

twoOptSwapWithBestImprovement(tour) == twoOptWhile(tour)

\* ----------------------------------------------------------------------
\* nearestNeighbor (imported by the engines as nearestNeighbour)
\* ----------------------------------------------------------------------
\* the for (const node of nodes) scan: position of the nearest unvisited node
\* from input position j on; near = 0 stands for nearestNode = null and
\* minDistance = Infinity
\* mutant: a node at the same distance replaces the nearest so far
closerOrEqual(distance, minDistance) == distance <= minDistance

\* distance < minDistance
closer(distance, minDistance) == distance < minDistance

RECURSIVE nearestScan(_, _, _, _, _)
nearestScan(nds, tour, j, near, minDistance) ==
  IF j > Len(nds) THEN near
  ELSE IF \E q \in 1..Len(tour) : tour[q].id = nds[j].id
       THEN nearestScan(nds, tour, j + 1, near, minDistance)
       ELSE LET distance == calculateEuclideanDistance(tour[Len(tour)], nds[j])
            IN IF near = 0 \/ closer(distance, minDistance)
               THEN nearestScan(nds, tour, j + 1, j, distance)
               ELSE nearestScan(nds, tour, j + 1, near, minDistance)

\* the while (tour.length < nodes.length) loop
RECURSIVE nearestWhile(_, _)
nearestWhile(nds, tour) ==
  IF Len(tour) >= Len(nds) THEN tour
  ELSE nearestWhile(nds, Append(tour, nds[nearestScan(nds, tour, 1, 0, 0)]))

\* nodes[Math.floor(Math.random() * 0)] is undefined and startNode.id throws
nearestNeighborThrows(nds) == Len(nds) = 0

\* start is the 0-based index Math.floor(Math.random() * nodes.length)
nearestNeighbor(nds, start) == nearestWhile(nds, <<nds[start + 1]>>)

\* ----------------------------------------------------------------------
\* tabuSearch
\* ----------------------------------------------------------------------
\* `${Math.min(idA, idB)}-${Math.max(idA, idB)}`: the two ids, smaller first
moveKey(idA, idB) == <<Min(idA, idB), Max(idA, idB)>>

NoNeighbor == [found |-> FALSE, bestNeighbor |-> <<>>, bestNeighborDistance |-> 0,
               moveMade |-> <<>>]

\* mutant: no aspiration criterion
moveAllowedNotTabu(tabu, key, currentDistance, best) == key \notin tabu

\* is the move allowed: not in the tabu list, or better than the best so far
moveAllowed(tabu, key, currentDistance, best) ==
  key \notin tabu \/ currentDistance < best

\* the nested for loops over the 2-opt neighbours of cur, from the pair
\* (i, k) on; acc.found = FALSE is bestNeighbor = null with
\* bestNeighborDistance = Infinity
RECURSIVE neighborScan(_, _, _, _, _, _)
neighborScan(cur, tabu, best, acc, i, k) ==
  IF i >= Len(cur) - 1 THEN acc
  ELSE IF k >= Len(cur) THEN neighborScan(cur, tabu, best, acc, i + 1, i + 2)
  ELSE LET currentNeighbor == twoOptSwap(cur, i, k)
           key == moveKey(cur[i + 1].id, cur[k + 1].id)
           currentDistance == calculateTourDistance(currentNeighbor)
       IN IF /\ moveAllowed(tabu, key, currentDistance, best)
             /\ (~acc.found \/ currentDistance < acc.bestNeighborDistance)
          THEN neighborScan(cur, tabu, best,
                            [found |-> TRUE, bestNeighbor |-> currentNeighbor,
                             bestNeighborDistance |-> currentDistance,
                             moveMade |-> key], i, k + 1)
          ELSE neighborScan(cur, tabu, best, acc, i, k + 1)

\* mutant: the scan starts at position 0
scanFromZero(cur, tabu, best) == neighborScan(cur, tabu, best, NoNeighbor, 0, 1)

\* the scan of one iteration: let i = 1, let k = i + 1, no neighbour kept yet
scanFromOne(cur, tabu, best) == neighborScan(cur, tabu, best, NoNeighbor, 1, 2)

\* mutant: the loop runs once more
loopContinuesInclusive(i, maxIterations) == i <= maxIterations

\* the loop condition of the main for loop
loopContinues(i, maxIterations) == i < maxIterations

\* mutant: the iteration goes on without a neighbour
noBestNeighborIgnored(n) == FALSE

\* !bestNeighbor: the scan kept no neighbour
noBestNeighbor(n) == ~n.found

\* mutant: an iteration without a neighbour ends the loop
afterContinueExits(i, maxIterations) == maxIterations

\* continue: the for loop goes on with iter++
afterContinue(i, maxIterations) == i + 1

\* mutant: the comparison is reversed
improvesBestReversed(bestNeighborDistance, best) == bestNeighborDistance > best

\* is the accepted neighbour a new best solution
improvesBest(bestNeighborDistance, best) == bestNeighborDistance < best

\* mutant: the oldest move is evicted one push too late
queueAfterPushLate(queue, move, tenure) ==
  LET pushed == Append(queue, move)
  IN IF Len(pushed) > tenure + 1 THEN Tail(pushed) ELSE pushed

\* tabuQueue.push(moveMade); if over tenure, tabuQueue.shift()
queueAfterPush(queue, move, tenure) ==
  LET pushed == Append(queue, move)
  IN IF Len(pushed) > tenure THEN Tail(pushed) ELSE pushed

\* tabuList.add(moveMade); if over tenure, tabuList.delete(removed)
listAfterPush(list, queue, move, tenure) ==
  LET pushed == Append(queue, move)
  IN IF Len(pushed) > tenure THEN (list \cup {move}) \ {Head(pushed)}
     ELSE list \cup {move}

\* ----------------------------------------------------------------------
\* antColony: numbers
\* ----------------------------------------------------------------------
\* A pheromone value is a pair <<numerator, denominator>> in lowest terms with
\* denominator >= 0: <<1, 0>> is Infinity, <<-1, 0>> is -Infinity and <<0, 0>>
\* is NaN.  The arithmetic is that of the reals extended with the IEEE rules
\* for Infinity and NaN; the rounding of the doubles is not modelled.
RECURSIVE Gcd(_, _)
Gcd(a, b) == IF b = 0 THEN a ELSE Gcd(b, a % b)

Sign(v) == IF v > 0 THEN 1 ELSE IF v < 0 THEN -1 ELSE 0

Norm(v) ==
  IF v[2] = 0 THEN <<Sign(v[1]), 0>>
  ELSE LET g == Gcd(Abs(v[1]), Abs(v[2]))
       IN <<(Sign(v[2]) * v[1]) \div g, Abs(v[2]) \div g>>

IsNaN(v) == v = <<0, 0>>

IsFinite(v) == v[2] > 0

RMul(a, b) == Norm(<<a[1] * b[1], a[2] * b[2]>>)

RAdd(a, b) ==
  IF a[2] = 0 /\ b[2] = 0 THEN (IF a = b THEN a ELSE <<0, 0>>)
  ELSE Norm(<<a[1] * b[2] + b[1] * a[2], a[2] * b[2]>>)

RSub(a, b) == RAdd(a, <<-b[1], b[2]>>)

\* the quotient of two integers
RDiv(a, b) == Norm(<<a, b>>)

\* ----------------------------------------------------------------------
\* antColony: chooseNextNode
\* ----------------------------------------------------------------------
\* distances[i][j], 0-based indices into tsp.nodes
distances(nds, i, j) == calculateEuclideanDistance(nds[i + 1], nds[j + 1])

\* the unvisited nodes that are not skipped by the distance === 0 guard, in
\* the iteration order of the set
candidates(nds, current, unvisited) ==
  SelectSeq(unvisited, LAMBDA node : distances(nds, current, node) # 0)

\* What is known of prob = Math.pow(pheromone, alpha) * Math.pow(1 / distance, beta)
\* for a candidate (distance > 0): "zero", "pos", "neg", "inf" (of either
\* sign) or "nan".  alpha is 0 or 1 in the model.
probClass(ph, alpha) ==
  IF alpha = 0 THEN "pos"
  ELSE IF IsNaN(ph) THEN "nan"
  ELSE IF ~IsFinite(ph) THEN "inf"
  ELSE IF ph[1] = 0 THEN "zero"
  ELSE IF ph[1] < 0 THEN "neg"
  ELSE "pos"

\* The nodes chooseNextNode can return, over the values r of Math.random().
\* probabilities[j] belongs to the j-th candidate, but the selection loop
\* iterates the whole unvisited set and adds normalized[index++] for its j-th
\* member; past the end of normalized the sum is NaN and nothing is returned
\* by the loop.
chooseNextNode(nds, current, unvisited, pher, alpha) ==
  LET cand == candidates(nds, current, unvisited)
      cls == [j \in 1..Len(cand) |->
                probClass(pher[current + 1][cand[j] + 1], alpha)]
      allFinite == \A j \in 1..Len(cand) : cls[j] \in {"zero", "pos", "neg"}
      sumIsZero == \A j \in 1..Len(cand) : cls[j] = "zero"
      someNegative == \E j \in 1..Len(cand) : cls[j] = "neg"
  IN IF sumIsZero THEN {unvisited[1]}             \* sum === 0
     ELSE IF ~allFinite THEN {unvisited[1]}       \* r <= 0, or r <= NaN throughout
     ELSE IF someNegative
     THEN \* the cumulative sums depend on the magnitudes: every member that
          \* has a normalized probability is taken as a possible result
          {unvisited[j] : j \in 1..Len(cand)} \cup {unvisited[1]}
     ELSE {unvisited[j] : j \in {t \in 1..Len(cand) : cls[t] = "pos"}}
          \cup {unvisited[1]}                     \* r = 0, or the final fallback

\* the paths the while (unvisited.size > 0) loop can build
RECURSIVE antPaths(_, _, _, _, _)
antPaths(nds, path, unvisited, pher, alpha) ==
  IF Len(unvisited) = 0 THEN {path}
  ELSE UNION {antPaths(nds, Append(path, nextIdx),
                       SelectSeq(unvisited, LAMBDA u : u # nextIdx), pher, alpha) :
                nextIdx \in chooseNextNode(nds, path[Len(path)], unvisited, pher, alpha)}

\* mutant: an ant's tour as long as the best one replaces it
antIsShorterOrEqual(currentAntTourLength, best) == currentAntTourLength <= best

\* currentAntTourLength < bestDistance
antIsShorter(currentAntTourLength, best) == currentAntTourLength < best

\* tsp.nodes.indexOf(node): the nodes are distinct objects
indexOf(nds, node) ==
  IF \E p \in 1..Len(nds) : nds[p] = node
  THEN (CHOOSE p \in 1..Len(nds) : nds[p] = node /\ \A q \in 1..(p - 1) : nds[q] # node) - 1
  ELSE -1

\* pheromones[i][j] *= 1 - evaporation, for all i, j
evaporate(pher, evaporation) ==
  [i \in DOMAIN pher |->
     [j \in DOMAIN pher[i] |-> RMul(pher[i][j], RSub(<<1, 1>>, evaporation))]]

\* mutant: the deposit is made in one direction only
depositOneWay(pher, fromIdx, toIdx, depositAmount) ==
  [pher EXCEPT ![fromIdx + 1][toIdx + 1] = RAdd(@, depositAmount)]

\* pheromones[fromIdx][toIdx] += depositAmount; pheromones[toIdx][fromIdx] += depositAmount
depositOnEdge(pher, fromIdx, toIdx, depositAmount) ==
  LET fwd == [pher EXCEPT ![fromIdx + 1][toIdx + 1] = RAdd(@, depositAmount)]
  IN [fwd EXCEPT ![toIdx + 1][fromIdx + 1] = RAdd(@, depositAmount)]

\* the deposit loop over the edges of path, from edge i on
RECURSIVE deposit(_, _, _, _, _)
deposit(nds, pher, path, depositAmount, i) ==
  IF i >= Len(path) THEN pher
  ELSE LET fromIdx == indexOf(nds, path[i + 1])
           toIdx == indexOf(nds, path[((i + 1) % Len(path)) + 1])
           both == IF fromIdx # -1 /\ toIdx # -1
                   THEN depositOnEdge(pher, fromIdx, toIdx, depositAmount)
                   ELSE pher
       IN deposit(nds, both, path, depositAmount, i + 1)

\* ----------------------------------------------------------------------
\* scatterSearch: helpers
\* ----------------------------------------------------------------------
\* an empty slot of new Array(size)
Empty == [id |-> 0, x |-> 0, y |-> 0]

\* for (let i = start; i <= end; i++) child[i] = tour1[i]
RECURSIVE copySegment(_, _, _)
copySegment(tour1, start, end) ==
  IF Len(tour1) = 0 THEN <<>>
  ELSE Append(copySegment(SubSeq(tour1, 1, Len(tour1) - 1), start, end),
              IF start <= Len(tour1) - 1 /\ Len(tour1) - 1 <= end
              THEN tour1[Len(tour1)] ELSE Empty)

\* mutant: occupied slots are not skipped
nextEmptyNoSkip(child, idx) == idx

\* while (child[idx]) idx++
RECURSIVE nextEmpty(_, _)
nextEmpty(child, idx) ==
  IF idx < Len(child) /\ child[idx + 1] # Empty THEN nextEmpty(child, idx + 1) ELSE idx

\* the fill loop over tour2, from position i on; used is the set of ids
RECURSIVE fillFrom(_, _, _, _, _)
fillFrom(child, used, tour2, idx, i) ==
  IF i >= Len(tour2) THEN child
  ELSE LET node == tour2[i + 1]
       IN IF node.id \notin used
          THEN LET at == nextEmpty(child, idx)
               IN fillFrom([child EXCEPT ![at + 1] = node], used \cup {node.id}, tour2, at, i + 1)
          ELSE fillFrom(child, used, tour2, idx, i + 1)

\* mutant: the two random positions are not sorted
combineToursUnsorted(tour1, tour2, a, b) ==
  fillFrom(copySegment(tour1, a, b), {tour1[p].id : p \in (a + 1)..(b + 1)}, tour2, 0, 0)

\* a and b are the two values Math.floor(Math.random() * size)
combineToursWithCrossover(tour1, tour2, a, b) ==
  LET start == Min(a, b)
      end == Max(a, b)
      segment == copySegment(tour1, start, end)
      used == {tour1[p].id : p \in (start + 1)..(end + 1)}
  IN fillFrom(segment, used, tour2, 0, 0)

\* Array.prototype.sort with (a, b) => calculateTourDistance(a) - calculateTourDistance(b):
\* a stable sort by ascending length
RECURSIVE insertByDistance(_, _)
insertByDistance(sorted, tour) ==
  IF Len(sorted) = 0 THEN <<tour>>
  ELSE IF calculateTourDistance(sorted[Len(sorted)]) <= calculateTourDistance(tour)
       THEN Append(sorted, tour)
       ELSE Append(insertByDistance(SubSeq(sorted, 1, Len(sorted) - 1), tour),
                   sorted[Len(sorted)])

RECURSIVE sortFrom(_, _, _)
sortFrom(sorted, tours, p) ==
  IF p > Len(tours) THEN sorted
  ELSE sortFrom(insertByDistance(sorted, tours[p]), tours, p + 1)

sortByDistance(tours) == sortFrom(<<>>, tours, 1)

\* mutant: a solution as long as the shortest member is admitted too
admitTies(refSet, solution, eliteSolutionsSize) ==
  IF ~\E p \in 1..Len(refSet) :
        calculateTourDistance(refSet[p]) < calculateTourDistance(solution)
  THEN Slice(sortByDistance(Append(refSet, solution)), 0, eliteSolutionsSize)
  ELSE refSet

\* the body of the reference-set update loop for one new solution:
\* admitted when no member is at most as long
admit(refSet, solution, eliteSolutionsSize) ==
  IF ~\E p \in 1..Len(refSet) :
        calculateTourDistance(refSet[p]) <= calculateTourDistance(solution)
  THEN Slice(sortByDistance(Append(refSet, solution)), 0, eliteSolutionsSize)
  ELSE refSet

\* for (const solution of newSolutions) ..., from position p on
RECURSIVE updateReferenceSet(_, _, _, _)
updateReferenceSet(refSet, solutions, eliteSolutionsSize, p) ==
  IF p > Len(solutions) THEN refSet
  ELSE updateReferenceSet(admit(refSet, solutions[p], eliteSolutionsSize),
                          solutions, eliteSolutionsSize, p + 1)

\* the results of shuffle(array): Fisher-Yates reaches every permutation
shuffle(array) ==
  {[p \in 1..Len(array) |-> array[f[p]]] :
     f \in {g \in [1..Len(array) -> 1..Len(array)] :
              \A p, q \in 1..Len(array) : p # q => g[p] # g[q]}}

\* twoOptImproved of the early-stop variant: the 2-opt loop with a cap on the
\* number of passes
maxLoops == 100

RECURSIVE twoOptCapped(_, _)
twoOptCapped(best, loops) ==
  IF loops >= maxLoops THEN best
  ELSE LET pass == twoOptPass(best, FALSE, 1, 2)
       IN IF pass[2] THEN twoOptCapped(pass[1], loops + 1) ELSE pass[1]

\* it computes calculateTourDistance(best) first, which throws on an empty tour
twoOptImprovedCapped(tour) == twoOptCapped(tour, 0)

\* twoOptImproved of src/scatter.ts: no cap, and on an empty tour the loops
\* do not run and no distance is computed
twoOptImproved(tour) == IF Len(tour) = 0 THEN tour ELSE twoOptWhile(tour)

\* mutant: the inner loop starts at k = i
firstPairSelf == <<0, 0>>

\* i = 0 and k = i + 1, the first pair of the nested combination loops
firstPair == <<0, 1>>

\* the pair after <<i, k>> in the nested combination loops over a set of size len
nextPair(p, len) == IF p[2] + 1 < len THEN <<p[1], p[2] + 1>> ELSE <<p[1] + 1, p[1] + 2>>

\* ----------------------------------------------------------------------
\* Inputs
\* ----------------------------------------------------------------------
Coords == {<<3 * a, 4 * b>> : a \in 0..MaxGridX, b \in 0..MaxGridY}

\* ids are 1, 2, ... in input order, as in a TSPLIB NODE_COORD_SECTION
MkNodes(c) == [p \in 1..Len(c) |-> [id |-> p, x |-> c[p][1], y |-> c[p][2]]]

IsSquare(q) == \E r \in 0..q : r * r = q

\* every pairwise distance is an integer
IntegerDistances(nds) ==
  \A p, q \in 1..Len(nds) :
    \/ nds[p].x = nds[q].x
    \/ nds[p].y = nds[q].y
    \/ IsSquare((nds[p].x - nds[q].x) * (nds[p].x - nds[q].x)
                + (nds[p].y - nds[q].y) * (nds[p].y - nds[q].y))

\* All point lists of at most n grid points with integer distances.  The
\* engines use the coordinates through differences only, so the first point
\* is put at the origin.
InputsUpTo(n) ==
  {nds \in {MkNodes(c) : c \in UNION {[1..m -> Coords] : m \in 0..n}} :
     /\ IntegerDistances(nds)
     /\ Len(nds) > 0 => (nds[1].x = 0 /\ nds[1].y = 0)}

\* four points on a line for which the nearest-neighbour tour from the
\* second point is not optimal
LineInstance == MkNodes(<<<<0, 0>>, <<2, 0>>, <<3, 0>>, <<7, 0>>>>)

\* the corners of a 3 x 4 rectangle, in an order that crosses the diagonals
RectangleInstance == MkNodes(<<<<0, 0>>, <<3, 4>>, <<3, 0>>, <<0, 4>>>>)

\* the same corners in the order of the perimeter: a tour that no 2-opt move
\* shortens
PerimeterInstance == MkNodes(<<<<0, 0>>, <<3, 0>>, <<3, 4>>, <<0, 4>>>>)

\* The permutations of a sequence of four elements that keep the first in place
permutationsFromFirst(c) ==
  {[p \in 1..4 |-> c[f[p]]] :
     f \in {g \in [1..4 -> 1..4] : g[1] = 1 /\ \A p, q \in 1..4 : p # q => g[p] # g[q]}}

\* The four corners of a square, in every input order that starts at the
\* origin.  The unit of length is a fifth of the side.  The diagonal of the
\* square is not an integer: Hypot gives 7 for it.  The engines only compare
\* lengths, and on the unit square the doubles they compare are 0 < 1 < 1.41...
\* for two points and 4 < 4.82... for a tour (every tour with two diagonals has
\* the same double length); 0 < 5 < 7 and 20 < 24 are in the same order.
SquareInstances ==
  {MkNodes(c) : c \in permutationsFromFirst(<<<<0, 0>>, <<5, 0>>, <<5, 5>>, <<0, 5>>>>)}

\* five points, one of them twice, in an order that the for loops of
\* twoOptSwapWithBestImprovement shorten in two successive passes (32, 26, 24)
TwoPassInstance == MkNodes(<<<<0, 0>>, <<3, 4>>, <<6, 0>>, <<6, 8>>, <<6, 0>>>>)

\* a larger instance on a line, for the deterministic engine only
LongLineInstance ==
  MkNodes(<<<<1, 0>>, <<6, 0>>, <<0, 0>>, <<4, 0>>, <<2, 0>>, <<0, 0>>, <<5, 0>>>>)

Engines == {"tabu", "ant", "scatter", "scatterEarlyStop", "scatterPooled"}

\* the three variants of scatterSearch
ScatterEngines == {"scatter", "scatterEarlyStop", "scatterPooled"}

\* the variants that build the population from shuffles of the input
ShuffleEngines == {"scatterEarlyStop", "scatterPooled"}

InputsOf(e) ==
  IF e = "tabu"
  THEN InputsUpTo(MaxN) \cup SquareInstances
         \cup {LineInstance, RectangleInstance, PerimeterInstance, LongLineInstance,
               TwoPassInstance}
  ELSE IF e \in ShuffleEngines
  THEN InputsUpTo(MaxShuffleN) \cup SquareInstances \cup {RectangleInstance}
  ELSE InputsUpTo(MaxN) \cup SquareInstances \cup {LineInstance, RectangleInstance}

\* the defaults of antColony's alpha, beta, evaporation and Q
NoParams == [maxIterations |-> 0, tabuTenure |-> 0, ants |-> 0, alpha |-> 1, beta |-> 5,
             evaporation |-> <<1, 2>>, Q |-> 100, eliteSolutionsSize |-> 0,
             populationSize |-> 0]

\* the evaporation rates of the model: the default, and one outside 0..1
EvaporationRates == {<<1, 2>>, <<3, 2>>}

\* maxIterations is antColony's iterations; eliteSolutionsSize and
\* populationSize are refSetSize and candidateSize in the shuffling variants
ParamsOf(e) ==
  IF e = "tabu"
  THEN {[NoParams EXCEPT !.maxIterations = m, !.tabuTenure = t] :
          m \in 0..MaxIterations, t \in 0..MaxTenure}
  ELSE IF e = "ant"
  THEN {[NoParams EXCEPT !.maxIterations = m, !.ants = a, !.evaporation = ev] :
          m \in 0..MaxGenerations, a \in 0..MaxAnts, ev \in EvaporationRates}
  ELSE {[NoParams EXCEPT !.maxIterations = m, !.eliteSolutionsSize = r,
                         !.populationSize = c] :
          m \in 0..MaxScatterIterations, r \in 0..MaxRefSet, c \in 0..MaxPopulation}

\* the returned object; bestTour stands for bestSolution of tabuSearch, bestPath
\* of antColony, bestTour of scatterSearch and element 0 of the tuple of
\* src/scatter.ts
NoResult == [bestTour |-> <<>>, bestDistance |-> 0, initialDistance |-> 0]

\* the algorithms the orchestrator starts a worker for
Algorithms == {"ant", "tabu", "scatter"}

\* no worker thread has been started
NoWorkers == [w \in Algorithms |-> "none"]

Init ==
  /\ engine \in Engines
  /\ nodes \in InputsOf(engine)
  /\ params \in ParamsOf(engine)
  /\ pc = "start"
  /\ iter = 0
  /\ bestDistance = 0
  /\ initialDistance = 0
  /\ result = NoResult
  /\ currentSolution = <<>>
  /\ bestSolution = <<>>
  /\ tabuList = {}
  /\ tabuQueue = <<>>
  /\ moves = <<>>
  /\ antK = 0
  /\ currentAntTourNodes = <<>>
  /\ bestPath = <<>>
  /\ pheromones = <<>>
  /\ initialSolution = <<>>
  /\ candidatePool = <<>>
  /\ referenceSet = <<>>
  /\ newSolutions = <<>>
  /\ combined = <<>>
  /\ pair = firstPair
  /\ bestTour = <<>>
  /\ workerPc = NoWorkers
  /\ outputDirExists = FALSE
  /\ posted = {}

\* ----------------------------------------------------------------------
\* tabuSearch: the run
\* ----------------------------------------------------------------------
\* lines 19-26: the initial solution is the input order
TabuStart ==
  /\ engine = "tabu" /\ pc = "start"
  /\ IF calculateTourDistanceThrows(nodes)
     THEN /\ pc' = "error"
          /\ UNCHANGED <<bestDistance, initialDistance, currentSolution, bestSolution>>
     ELSE /\ pc' = "loop"
          /\ currentSolution' = nodes
          /\ bestSolution' = nodes
          /\ bestDistance' = calculateTourDistance(nodes)
          /\ initialDistance' = calculateTourDistance(nodes)
  /\ UNCHANGED <<commonVars, exportVars, iter, result, tabuList, tabuQueue, moves, antVars, scatterVars>>

\* lines 29-83: one iteration of the main loop
TabuIterate ==
  /\ engine = "tabu" /\ pc = "loop"
  /\ loopContinues(iter, params.maxIterations)
  /\ LET n == scanFromOne(currentSolution, tabuList, bestDistance)
     IN IF noBestNeighbor(n)
        THEN /\ iter' = afterContinue(iter, params.maxIterations)
             /\ UNCHANGED <<bestDistance, tabuVars>>
        ELSE /\ iter' = iter + 1
             /\ currentSolution' = n.bestNeighbor
             /\ IF improvesBest(n.bestNeighborDistance, bestDistance)
                THEN /\ bestDistance' = n.bestNeighborDistance
                     /\ bestSolution' = n.bestNeighbor
                ELSE UNCHANGED <<bestDistance, bestSolution>>
             /\ tabuList' = listAfterPush(tabuList, tabuQueue, n.moveMade, params.tabuTenure)
             /\ tabuQueue' = queueAfterPush(tabuQueue, n.moveMade, params.tabuTenure)
             /\ moves' = Append(moves, n.moveMade)
  /\ UNCHANGED <<commonVars, exportVars, pc, initialDistance, result, antVars, scatterVars>>

\* lines 85-90
TabuReturn ==
  /\ engine = "tabu" /\ pc = "loop"
  /\ ~loopContinues(iter, params.maxIterations)
  /\ pc' = "done"
  /\ result' = [bestTour |-> bestSolution, bestDistance |-> bestDistance,
                initialDistance |-> initialDistance]
  /\ UNCHANGED <<commonVars, exportVars, iter, bestDistance, initialDistance, tabuVars, antVars,
               scatterVars>>

\* ----------------------------------------------------------------------
\* antColony: the run
\* ----------------------------------------------------------------------
\* lines 100-117: distance matrix, nearest-neighbour tour, uniform pheromones
AntStart ==
  /\ engine = "ant" /\ pc = "start"
  /\ IF nearestNeighborThrows(nodes)
     THEN /\ pc' = "error"
          /\ UNCHANGED <<bestDistance, initialDistance, bestPath, pheromones>>
     ELSE \E start \in 0..(Len(nodes) - 1) :
            LET initialTour == nearestNeighbor(nodes, start)
            IN /\ pc' = "loop"
               /\ initialDistance' = calculateTourDistance(initialTour)
               /\ pheromones' = [i \in 1..Len(nodes) |-> [j \in 1..Len(nodes) |-> <<1, 1>>]]
               /\ bestPath' = initialTour
               /\ bestDistance' = calculateTourDistance(initialTour)
  /\ UNCHANGED <<commonVars, exportVars, iter, result, tabuVars, antK, currentAntTourNodes, scatterVars>>

\* lines 123-155: one ant builds a tour; the best so far is updated
AntConstruct ==
  /\ engine = "ant" /\ pc = "loop"
  /\ iter < params.maxIterations
  /\ antK < params.ants
  /\ \E currentIdx \in 0..(Len(nodes) - 1) :
       \E currentAntPathIndices \in
            antPaths(nodes, <<currentIdx>>,
                     SelectSeq([p \in 1..Len(nodes) |-> p - 1], LAMBDA u : u # currentIdx),
                     pheromones, params.alpha) :
         LET tour == [p \in 1..Len(currentAntPathIndices) |->
                        nodes[currentAntPathIndices[p] + 1]]
             currentAntTourLength == calculateTourDistance(tour)
         IN /\ currentAntTourNodes' = tour
            /\ IF antIsShorter(currentAntTourLength, bestDistance)
               THEN /\ bestDistance' = currentAntTourLength
                    /\ bestPath' = tour
               ELSE UNCHANGED <<bestDistance, bestPath>>
  /\ antK' = antK + 1
  /\ UNCHANGED <<commonVars, exportVars, pc, iter, initialDistance, result, tabuVars, pheromones,
                 scatterVars>>

\* lines 157-186: evaporation, 2-opt on the best path, deposit
AntUpdate ==
  /\ engine = "ant" /\ pc = "loop"
  /\ iter < params.maxIterations
  /\ antK >= params.ants
  /\ LET optimizedBestPath == twoOptSwapWithBestImprovement(bestPath)
         optimizedBestDistance == calculateTourDistance(optimizedBestPath)
         newDistance == IF optimizedBestDistance < bestDistance
                        THEN optimizedBestDistance ELSE bestDistance
         newPath == IF optimizedBestDistance < bestDistance
                    THEN optimizedBestPath ELSE bestPath
         depositAmount == RDiv(params.Q, newDistance)
     IN /\ bestDistance' = newDistance
        /\ bestPath' = newPath
        /\ pheromones' = deposit(nodes, evaporate(pheromones, params.evaporation),
                                 newPath, depositAmount, 0)
  /\ iter' = iter + 1
  /\ antK' = 0
  /\ UNCHANGED <<commonVars, exportVars, pc, initialDistance, result, tabuVars, currentAntTourNodes,
                 scatterVars>>

\* lines 189-194
AntReturn ==
  /\ engine = "ant" /\ pc = "loop"
  /\ iter >= params.maxIterations
  /\ pc' = "done"
  /\ result' = [bestTour |-> bestPath, bestDistance |-> bestDistance,
                initialDistance |-> initialDistance]
  /\ UNCHANGED <<commonVars, exportVars, iter, bestDistance, initialDistance, tabuVars, antVars,
                 scatterVars>>

\* ----------------------------------------------------------------------
\* scatterSearch: the run.  "scatter" is the variant that improves copies of
\* the nearest-neighbour tour and admits new solutions one by one;
\* "scatterEarlyStop" shuffles, pools, truncates and stops early;
\* "scatterPooled" (src/scatter.ts) shuffles and pools.
\* ----------------------------------------------------------------------
\* mutant: every second member of the population is the tour read backwards
copiesAlternating(count, tour) ==
  [p \in 1..count |-> IF p % 2 = 1 THEN tour ELSE Reverse(tour)]

\* Array.from({ length: count }, () => tour)
copies(count, tour) == [p \in 1..count |-> tour]

\* lines 212-222 of the "scatter" variant
ScatterStart ==
  /\ engine = "scatter" /\ pc = "start"
  /\ IF nearestNeighborThrows(nodes)
     THEN /\ pc' = "error"
          /\ UNCHANGED <<initialSolution, referenceSet>>
     ELSE \E start \in 0..(Len(nodes) - 1) :
            LET nn == nearestNeighbor(nodes, start)
                population == copies(params.populationSize, twoOptSwapWithBestImprovement(nn))
            IN /\ pc' = "loop"
               /\ initialSolution' = nn
               /\ referenceSet' = Slice(sortByDistance(population), 0,
                                        params.eliteSolutionsSize)
  /\ UNCHANGED <<commonVars, exportVars, iter, bestDistance, initialDistance, result, tabuVars, antVars,
                 candidatePool, newSolutions, combined, pair, bestTour>>

\* one round of the candidate loop of the shuffling variants; iter is its counter
ShuffleGenerate ==
  /\ engine \in ShuffleEngines /\ pc = "start"
  /\ iter < params.populationSize
  /\ \E randomTour \in shuffle(nodes) :
       IF engine = "scatterEarlyStop" /\ calculateTourDistanceThrows(randomTour)
       THEN /\ pc' = "error"
            /\ UNCHANGED <<iter, candidatePool>>
       ELSE /\ candidatePool' =
                 Append(candidatePool,
                        IF engine = "scatterEarlyStop" THEN twoOptImprovedCapped(randomTour)
                        ELSE twoOptImproved(randomTour))
            /\ iter' = iter + 1
            /\ pc' = pc
  /\ UNCHANGED <<commonVars, exportVars, bestDistance, initialDistance, result, tabuVars, antVars,
                 initialSolution, referenceSet, newSolutions, combined, pair, bestTour>>

\* the candidate pool is sorted and the reference set selected
ShuffleSelect ==
  /\ engine \in ShuffleEngines /\ pc = "start"
  /\ iter >= params.populationSize
  /\ IF engine = "scatterEarlyStop"
     THEN \* lines 377-383: bestTour = referenceSet[0] must exist
          IF Len(candidatePool) = 0 \/ params.eliteSolutionsSize = 0
          THEN /\ pc' = "error"
               /\ UNCHANGED <<iter, bestDistance, initialDistance, referenceSet, bestTour>>
          ELSE LET sorted == sortByDistance(candidatePool)
               IN /\ pc' = "loop"
                  /\ iter' = 0
                  /\ referenceSet' = Slice(sorted, 0, params.eliteSolutionsSize)
                  /\ bestTour' = sorted[1]
                  /\ bestDistance' = calculateTourDistance(sorted[1])
                  /\ initialDistance' = calculateTourDistance(sorted[1])
     ELSE \* src/scatter.ts lines 95-97: candidatePool[0] must be a non-empty tour
          IF Len(candidatePool) = 0 \/ calculateTourDistanceThrows(candidatePool[1])
          THEN /\ pc' = "error"
               /\ UNCHANGED <<iter, bestDistance, initialDistance, referenceSet, bestTour>>
          ELSE LET sorted == sortByDistance(candidatePool)
               IN /\ pc' = "loop"
                  /\ iter' = 0
                  /\ initialDistance' = calculateTourDistance(sorted[1])
                  /\ referenceSet' = Slice(sorted, 0, params.eliteSolutionsSize)
                  /\ UNCHANGED <<bestDistance, bestTour>>
  /\ UNCHANGED <<commonVars, exportVars, result, tabuVars, antVars, initialSolution, candidatePool,
                 newSolutions, combined, pair>>

\* the body of the combination loops for the pair <<i, k>>: crossover, 2-opt
ScatterCombine ==
  /\ engine \in ScatterEngines /\ pc = "loop"
  /\ iter < params.maxIterations
  /\ pair[2] < Len(referenceSet)
  /\ \E a, b \in 0..(Len(nodes) - 1) :
       LET crossed == combineToursWithCrossover(referenceSet[pair[1] + 1],
                                              referenceSet[pair[2] + 1], a, b)
           improved == IF engine = "scatter" THEN twoOptSwapWithBestImprovement(crossed)
                       ELSE IF engine = "scatterEarlyStop" THEN twoOptImprovedCapped(crossed)
                       ELSE twoOptImproved(crossed)
       IN /\ combined' = crossed
          /\ newSolutions' = Append(newSolutions, improved)
  /\ pair' = nextPair(pair, Len(referenceSet))
  /\ UNCHANGED <<commonVars, exportVars, pc, iter, bestDistance, initialDistance, result, tabuVars,
                 antVars, initialSolution, candidatePool, referenceSet, bestTour>>

\* lines 244-257 of the "scatter" variant: the admission loop
ScatterUpdate ==
  /\ engine = "scatter" /\ pc = "loop"
  /\ iter < params.maxIterations
  /\ pair[2] >= Len(referenceSet)
  /\ referenceSet' = updateReferenceSet(referenceSet, newSolutions,
                                        params.eliteSolutionsSize, 1)
  /\ newSolutions' = <<>>
  /\ pair' = firstPair
  /\ iter' = iter + 1
  /\ UNCHANGED <<commonVars, exportVars, pc, bestDistance, initialDistance, result, tabuVars, antVars,
                 initialSolution, candidatePool, combined, bestTour>>

\* lines 399-412 of the "scatterEarlyStop" variant
EarlyStopUpdate ==
  /\ engine = "scatterEarlyStop" /\ pc = "loop"
  /\ iter < params.maxIterations
  /\ pair[2] >= Len(referenceSet)
  /\ LET pooled == sortByDistance(referenceSet \o newSolutions)
         newBest == pooled[1]
         newBestDistance == calculateTourDistance(newBest)
     IN IF newBestDistance >= bestDistance
        THEN /\ pc' = "break"
             /\ UNCHANGED <<iter, bestDistance, referenceSet, bestTour>>
        ELSE /\ bestTour' = newBest
             /\ bestDistance' = newBestDistance
             /\ referenceSet' = Slice(pooled, 0, params.eliteSolutionsSize)
             /\ iter' = iter + 1
             /\ pc' = pc
  /\ newSolutions' = <<>>
  /\ pair' = firstPair
  /\ UNCHANGED <<commonVars, exportVars, initialDistance, result, tabuVars, antVars, initialSolution,
                 candidatePool, combined>>

\* src/scatter.ts line 111
PooledUpdate ==
  /\ engine = "scatterPooled" /\ pc = "loop"
  /\ iter < params.maxIterations
  /\ pair[2] >= Len(referenceSet)
  /\ referenceSet' = sortByDistance(referenceSet \o newSolutions)
  /\ newSolutions' = <<>>
  /\ pair' = firstPair
  /\ iter' = iter + 1
  /\ UNCHANGED <<commonVars, exportVars, pc, bestDistance, initialDistance, result, tabuVars, antVars,
                 initialSolution, candidatePool, combined, bestTour>>

\* lines 260-265 of the "scatter" variant and line 114 of src/scatter.ts:
\* calculateTourDistance(referenceSet[0]) throws when the set is empty
ScatterReturn ==
  /\ engine \in {"scatter", "scatterPooled"} /\ pc = "loop"
  /\ iter >= params.maxIterations
  /\ IF Len(referenceSet) = 0
     THEN /\ pc' = "error"
          /\ UNCHANGED result
     ELSE /\ pc' = "done"
          /\ result' = [bestTour |-> referenceSet[1],
                        bestDistance |-> calculateTourDistance(referenceSet[1]),
                        initialDistance |->
                          IF engine = "scatter" THEN calculateTourDistance(initialSolution)
                          ELSE initialDistance]
  /\ UNCHANGED <<commonVars, exportVars, iter, bestDistance, initialDistance, tabuVars, antVars,
                 scatterVars>>

\* lines 415-420 of the "scatterEarlyStop" variant
EarlyStopReturn ==
  /\ engine = "scatterEarlyStop"
  /\ \/ pc = "break"
     \/ pc = "loop" /\ iter >= params.maxIterations
  /\ pc' = "done"
  /\ result' = [bestTour |-> bestTour, bestDistance |-> bestDistance,
                initialDistance |-> initialDistance]
  /\ UNCHANGED <<commonVars, exportVars, iter, bestDistance, initialDistance, tabuVars, antVars,
                 scatterVars>>

Next ==
  \/ TabuStart
  \/ TabuIterate
  \/ TabuReturn
  \/ AntStart
  \/ AntConstruct
  \/ AntUpdate
  \/ AntReturn
  \/ ScatterStart
  \/ ShuffleGenerate
  \/ ShuffleSelect
  \/ ScatterCombine
  \/ ScatterUpdate
  \/ EarlyStopUpdate
  \/ PooledUpdate
  \/ ScatterReturn
  \/ EarlyStopReturn

Spec == Init /\ [][Next]_vars

\* ----------------------------------------------------------------------
\* The reference-set update of the "scatter" variant, on its own.  In a run
\* of that variant the population is copies of one tour and the update loop
\* never meets a shorter solution, so the loop is applied here to every
\* sorted reference set of two or more tours of the input, at most
\* eliteSolutionsSize of them, and every list of one or two new solutions.
\* ----------------------------------------------------------------------
UpdateInputs == {RectangleInstance, LineInstance}

\* the sequences of count tours of tours that are sorted by ascending length
SortedTours(tours, count) ==
  {set \in [1..count -> tours] :
     \A p \in 1..(count - 1) :
       calculateTourDistance(set[p]) <= calculateTourDistance(set[p + 1])}

\* pc = "update": the loop for (const solution of newSolutions) is running and
\* iter is the number of solutions it has handled; candidatePool keeps the
\* reference set as it was before the loop
UpdateInit ==
  /\ engine = "scatter"
  /\ nodes \in UpdateInputs
  /\ params \in {[NoParams EXCEPT !.maxIterations = 1, !.eliteSolutionsSize = r,
                                 !.populationSize = r] : r \in 2..MaxRefSet}
  /\ pc = "update"
  /\ iter = 0
  /\ bestDistance = 0
  /\ initialDistance = 0
  /\ result = NoResult
  /\ currentSolution = <<>>
  /\ bestSolution = <<>>
  /\ tabuList = {}
  /\ tabuQueue = <<>>
  /\ moves = <<>>
  /\ antK = 0
  /\ currentAntTourNodes = <<>>
  /\ bestPath = <<>>
  /\ pheromones = <<>>
  /\ initialSolution = nodes
  /\ referenceSet \in UNION {SortedTours(permutationsFromFirst(nodes), count) :
                               count \in 2..params.eliteSolutionsSize}
  /\ candidatePool = referenceSet
  /\ newSolutions \in UNION {[1..count -> permutationsFromFirst(nodes)] : count \in 1..2}
  /\ combined = <<>>
  /\ pair = firstPair
  /\ bestTour = <<>>
  /\ workerPc = NoWorkers
  /\ outputDirExists = FALSE
  /\ posted = {}

\* lines 244-257: one round of the loop for (const solution of newSolutions)
UpdateAdmit ==
  /\ pc = "update"
  /\ iter < Len(newSolutions)
  /\ referenceSet' = admit(referenceSet, newSolutions[iter + 1], params.eliteSolutionsSize)
  /\ iter' = iter + 1
  /\ UNCHANGED <<commonVars, exportVars, pc, bestDistance, initialDistance, result, tabuVars, antVars,
                 initialSolution, candidatePool, newSolutions, combined, pair, bestTour>>

UpdateNext == UpdateAdmit

UpdateSpec == UpdateInit /\ [][UpdateNext]_vars

\* ----------------------------------------------------------------------
\* The orchestrator and its workers.  The orchestrator starts one worker
\* thread per algorithm, all with export enabled; the threads run in parallel
\* and share the file system.  A worker is at "results" while runAlgorithm
\* loops over the files, then at the call of saveResultsToXLSX it is about to
\* make: "exists" (fs.existsSync), "mkdir" (fs.mkdirSync), "write"
\* (fs.writeFileSync), then at "post" (parentPort.postMessage), and ends
\* "closed", or "failed" when a call has thrown.  Each file-system call is one
\* step; the steps of different workers interleave in any order.
\* ----------------------------------------------------------------------
\* the fourth element of workerData
exportResults == TRUE

\* the workers are started; assets/results may or may not exist yet
ExportInit ==
  /\ engine = "tabu"
  /\ nodes = <<>>
  /\ params = NoParams
  /\ pc = "export"
  /\ iter = 0
  /\ bestDistance = 0
  /\ initialDistance = 0
  /\ result = NoResult
  /\ currentSolution = <<>>
  /\ bestSolution = <<>>
  /\ tabuList = {}
  /\ tabuQueue = <<>>
  /\ moves = <<>>
  /\ antK = 0
  /\ currentAntTourNodes = <<>>
  /\ bestPath = <<>>
  /\ pheromones = <<>>
  /\ initialSolution = <<>>
  /\ candidatePool = <<>>
  /\ referenceSet = <<>>
  /\ newSolutions = <<>>
  /\ combined = <<>>
  /\ pair = firstPair
  /\ bestTour = <<>>
  /\ workerPc = [w \in Algorithms |-> "results"]
  /\ outputDirExists \in BOOLEAN
  /\ posted = {}

engineVars == <<commonVars, pc, iter, bestDistance, initialDistance, result, tabuVars,
                antVars, scatterVars>>

\* worker.ts lines 25-51: the loop over the files ends
WorkerResults(w) ==
  /\ workerPc[w] = "results"
  /\ workerPc' = [workerPc EXCEPT ![w] = IF exportResults THEN "exists" ELSE "post"]
  /\ UNCHANGED <<engineVars, outputDirExists, posted>>

\* xlsx.ts line 51: if (!fs.existsSync(outputDir))
WorkerExistsSync(w) ==
  /\ workerPc[w] = "exists"
  /\ workerPc' = [workerPc EXCEPT ![w] = IF outputDirExists THEN "write" ELSE "mkdir"]
  /\ UNCHANGED <<engineVars, outputDirExists, posted>>

\* xlsx.ts line 52: fs.mkdirSync(outputDir) throws EEXIST when the directory
\* exists; the exception leaves saveResultsToXLSX and rejects the promise of
\* runAlgorithm, which nothing handles
WorkerMkdirSync(w) ==
  /\ workerPc[w] = "mkdir"
  /\ IF outputDirExists
     THEN /\ workerPc' = [workerPc EXCEPT ![w] = "failed"]
          /\ UNCHANGED outputDirExists
     ELSE /\ workerPc' = [workerPc EXCEPT ![w] = "write"]
          /\ outputDirExists' = TRUE
  /\ UNCHANGED <<engineVars, posted>>

\* xlsx.ts lines 54-57
WorkerWriteFileSync(w) ==
  /\ workerPc[w] = "write"
  /\ outputDirExists
  /\ workerPc' = [workerPc EXCEPT ![w] = "post"]
  /\ UNCHANGED <<engineVars, outputDirExists, posted>>

\* worker.ts lines 52-55
WorkerPostMessage(w) ==
  /\ workerPc[w] = "post"
  /\ workerPc' = [workerPc EXCEPT ![w] = "closed"]
  /\ posted' = posted \cup {w}
  /\ UNCHANGED <<engineVars, outputDirExists>>

ExportNext ==
  \E w \in Algorithms :
    \/ WorkerResults(w)
    \/ WorkerExistsSync(w)
    \/ WorkerMkdirSync(w)
    \/ WorkerWriteFileSync(w)
    \/ WorkerPostMessage(w)

ExportSpec == ExportInit /\ [][ExportNext]_vars

\* ----------------------------------------------------------------------
\* Properties
\* ----------------------------------------------------------------------
Range(s) == {s[p] : p \in 1..Len(s)}

\* the last c elements of s
LastOf(s, c) == SubSeq(s, Len(s) + 1 - c, Len(s))

\* tour contains exactly the ids of the input, each exactly once
IsPermutation(tour) ==
  /\ Len(tour) = Len(nodes)
  /\ \A p \in 1..Len(nodes) :
       Cardinality({q \in 1..Len(tour) : tour[q].id = nodes[p].id}) = 1

\* a tour variable that has not been assigned yet
Unset(tour) == tour = <<>>

AllPermutations(tours) == \A p \in 1..Len(tours) : IsPermutation(tours[p])

Running == pc \in {"loop", "break", "done"}

\* C1: for a non-empty input with unique ids, every tour an engine holds during
\* the run (current, best, each ant's tour, each crossover child, each
\* reference-set member) and the tour it returns contains exactly the ids of
\* the input, each exactly once
C1_Permutation ==
  Len(nodes) > 0 =>
    /\ (engine = "tabu" /\ Running) =>
         IsPermutation(currentSolution) /\ IsPermutation(bestSolution)
    /\ (engine = "ant" /\ Running) =>
         /\ IsPermutation(bestPath)
         /\ Unset(currentAntTourNodes) \/ IsPermutation(currentAntTourNodes)
    /\ (engine = "scatter" /\ Running) => IsPermutation(initialSolution)
    /\ (engine = "scatterEarlyStop" /\ Running) => IsPermutation(bestTour)
    /\ engine \in ScatterEngines =>
         /\ AllPermutations(candidatePool)
         /\ AllPermutations(referenceSet)
         /\ AllPermutations(newSolutions)
         /\ Unset(combined) \/ IsPermutation(combined)
    /\ pc = "done" => IsPermutation(result.bestTour)

\* a crossover child that differs from every member of the reference set has
\* been built from four points, and the run has returned
C1_Witness ==
  /\ engine \in ScatterEngines /\ pc = "done"
  /\ Len(nodes) = 4
  /\ ~Unset(combined)
  /\ \A p \in 1..Len(referenceSet) : referenceSet[p] # combined
  /\ IsPermutation(combined)
  /\ IsPermutation(result.bestTour)

\* C2: the bestDistance an engine returns is less than or equal to the
\* initialDistance it returns
C2_NeverWorse ==
  pc = "done" => result.bestDistance <= result.initialDistance

\* tabuSearch has moved away from its best solution and returns a tour that is
\* strictly shorter than the input order
C2_Witness ==
  /\ engine = "tabu" /\ pc = "done"
  /\ result.bestDistance < result.initialDistance
  /\ currentSolution # bestSolution

\* C3: during a tabuSearch run the number of active tabu entries, the size of
\* tabuList and the length of tabuQueue, never exceeds tabuTenure
C3_TenureBound ==
  engine = "tabu" =>
    /\ Cardinality(tabuList) <= params.tabuTenure
    /\ Len(tabuQueue) <= params.tabuTenure

\* the tabu structures are full and a move has been evicted
C3_Witness ==
  /\ engine = "tabu" /\ pc = "done"
  /\ params.tabuTenure = 2
  /\ Len(moves) > params.tabuTenure
  /\ Len(tabuQueue) = params.tabuTenure
  /\ Cardinality(tabuList) = params.tabuTenure

\* C4: after every iteration of tabuSearch each of the last
\* min(tabuTenure, number of accepted moves) accepted move keys is in tabuList,
\* and tabuList holds exactly the keys present in tabuQueue
C4_KeysStayTabu ==
  engine = "tabu" =>
    /\ Range(LastOf(moves, Min(params.tabuTenure, Len(moves)))) \subseteq tabuList
    /\ tabuList = Range(tabuQueue)

\* C5: in every scatterSearch variant the reference set holds at most
\* refSetSize (eliteSolutionsSize) tours after the reference-set update of
\* every iteration
C5_ReferenceSetBounded ==
  (engine \in ScatterEngines /\ Running) =>
    Len(referenceSet) <= params.eliteSolutionsSize

\* C6: the members of the reference set of scatterSearch are pairwise
\* distinct tours, initially and after every iteration
C6_DistinctMembers ==
  engine \in ScatterEngines =>
    \A p, q \in 1..Len(referenceSet) : p # q => referenceSet[p] # referenceSet[q]

\* C7: on an empty point collection no engine raises an error, and each
\* returns an empty tour with distance 0
C7_EmptyInputReturns ==
  Len(nodes) = 0 =>
    /\ pc # "error"
    /\ pc = "done" => (result.bestTour = <<>> /\ result.bestDistance = 0)

\* a non-positive maxIterations / iterations, tabuTenure, populationSize or
\* refSetSize
Malformed ==
  \/ params.maxIterations <= 0
  \/ engine = "tabu" /\ params.tabuTenure <= 0
  \/ engine \in ScatterEngines /\ params.populationSize <= 0
  \/ engine \in ScatterEngines /\ params.eliteSolutionsSize <= 0

\* C8: an engine called with a malformed configuration fails before doing
\* any search work: it neither enters its main loop nor returns a result
C8_RejectsMalformed ==
  Malformed => ~Running

\* C9: tabuSearch with maxIterations = 0 returns the input points in their
\* input order, with bestDistance = initialDistance = the length of that order
C9_ZeroIterations ==
  (engine = "tabu" /\ params.maxIterations = 0 /\ pc = "done") =>
    /\ result.bestTour = nodes
    /\ result.bestDistance = calculateTourDistance(nodes)
    /\ result.initialDistance = calculateTourDistance(nodes)

\* a no-op run has returned on an input whose order can be improved by 2-opt
C9_Witness ==
  /\ engine = "tabu" /\ params.maxIterations = 0 /\ pc = "done"
  /\ nodes = RectangleInstance
  /\ calculateTourDistance(twoOptSwapWithBestImprovement(nodes)) < result.bestDistance

\* every size of the configuration is positive
Positive ==
  /\ params.maxIterations > 0
  /\ engine = "tabu" => params.tabuTenure > 0
  /\ engine = "ant" => params.ants > 0
  /\ engine \in ScatterEngines => (params.populationSize > 0 /\ params.eliteSolutionsSize > 0)

\* C10: on a single-point problem every engine, for every positive
\* configuration, runs to completion without error and returns bestDistance = 0
C10_SinglePoint ==
  (Len(nodes) = 1 /\ Positive) =>
    /\ pc # "error"
    /\ pc # "done" => ENABLED Next
    /\ pc = "done" => result.bestDistance = 0

\* antColony has run its generations on a single point, deposited Q / 0 on
\* the only pheromone entry, and returned
C10_Witness ==
  /\ Len(nodes) = 1 /\ Positive
  /\ engine = "ant" /\ pc = "done"
  /\ iter = MaxGenerations
  /\ pheromones[1][1] = <<1, 0>>
  /\ result.bestDistance = 0

\* the iteration budget is at least 1 and the ant / population / reference-set
\* counts are positive
Budgeted ==
  /\ params.maxIterations >= 1
  /\ engine = "ant" => params.ants >= 1
  /\ engine \in ScatterEngines => (params.populationSize >= 1 /\ params.eliteSolutionsSize >= 1)

\* consecutive points of tour, cyclically, are joined by a side of the square:
\* they differ in exactly one coordinate
CyclicOrder(tour) ==
  \A p \in 1..Len(tour) :
    LET a == tour[p]
        b == tour[(p % Len(tour)) + 1]
    IN (a.x = b.x) # (a.y = b.y)

\* the side of the square nds
SideOf(nds) == calculateEuclideanDistance(nds[1], CHOOSE c \in Range(nds) : c.x # nds[1].x /\ c.y = nds[1].y)

\* C11: on the four corners of a square, in any input order, every engine run
\* with an iteration budget of at least 1 and positive counts finishes without
\* error and returns a tour in cyclic order whose length is the perimeter, four
\* sides
C11_SquarePerimeter ==
  (nodes \in SquareInstances /\ Budgeted) =>
    /\ pc # "error"
    /\ pc = "done" =>
         /\ IsPermutation(result.bestTour)
         /\ CyclicOrder(result.bestTour)
         /\ result.bestDistance = 4 * SideOf(nodes)

\* tabuSearch has returned the perimeter from an input order that uses both
\* diagonals, after a single iteration
C11_Witness ==
  /\ engine = "tabu" /\ pc = "done"
  /\ nodes \in SquareInstances /\ ~CyclicOrder(nodes)
  /\ params.maxIterations = 1
  /\ CyclicOrder(result.bestTour)
  /\ result.bestDistance = 4 * SideOf(nodes)
  /\ result.initialDistance > result.bestDistance

\* the single tour the reference set starts with
initialMember ==
  IF engine = "scatter" THEN twoOptSwapWithBestImprovement(initialSolution)
  ELSE candidatePool[1]

\* a scatterSearch call with populationSize = 1 and refSetSize = 1 on a
\* non-empty input
SingleLineage ==
  /\ engine \in ScatterEngines /\ Len(nodes) > 0
  /\ params.populationSize = 1 /\ params.eliteSolutionsSize = 1

\* C12: scatterSearch with populationSize = 1 and refSetSize = 1 on a
\* non-empty input completes without error for every maxIterations: no pair is
\* combined, the reference set keeps its single tour, the main loop can always
\* go on to its next iteration or to the return, and that tour is returned
C12_SingleLineage ==
  SingleLineage =>
    /\ pc # "error"
    /\ newSolutions = <<>> /\ Unset(combined)
    /\ Running => referenceSet = <<initialMember>>
    /\ pc \in {"loop", "break"} =>
         ENABLED (ScatterUpdate \/ EarlyStopUpdate \/ PooledUpdate
                    \/ ScatterReturn \/ EarlyStopReturn)
    /\ pc = "done" => result.bestTour = initialMember

\* every variant can return from a single lineage after running its
\* iteration; here the one that admits solutions one by one
C12_Witness ==
  /\ engine = "scatter" /\ pc = "done"
  /\ nodes \in SquareInstances
  /\ params.populationSize = 1 /\ params.eliteSolutionsSize = 1
  /\ params.maxIterations >= 1 /\ iter = params.maxIterations
  /\ Len(referenceSet) = 1
  /\ result.bestTour = referenceSet[1]

\* v >= 0, for a pheromone value v; NaN is not
NonNegative(v) == ~IsNaN(v) /\ v[1] >= 0

\* 0 <= rate < 1
InUnitInterval(rate) == rate[1] >= 0 /\ rate[2] > 0 /\ rate[1] < rate[2]

\* C13: in antColony every entry of the pheromone matrix is greater than or
\* equal to 0 after any number of generations, and a call that has got past
\* its start has an evaporation rate in [0, 1)
C13_PheromonesNonNegative ==
  engine = "ant" =>
    /\ Running => InUnitInterval(params.evaporation)
    /\ \A i \in 1..Len(pheromones) : \A j \in 1..Len(pheromones[i]) :
         NonNegative(pheromones[i][j])

\* the best tour of the initial, 2-opt-improved population: the first member
\* of the initial reference set
initialPopulationBest ==
  IF engine = "scatter" THEN twoOptSwapWithBestImprovement(initialSolution)
  ELSE sortByDistance(candidatePool)[1]

\* C14: in every scatterSearch variant the initialDistance returned is the
\* length of the best tour of the initial, already 2-opt-improved population
C14_InitialDistanceOfPopulation ==
  (engine \in ScatterEngines /\ pc = "done") =>
    result.initialDistance = calculateTourDistance(initialPopulationBest)

\* every tour of the state: the input and the tours the engine holds
HeldTours ==
  {nodes, currentSolution, bestSolution, currentAntTourNodes, bestPath, initialSolution,
   combined, bestTour, result.bestTour}
    \cup Range(candidatePool) \cup Range(referenceSet) \cup Range(newSolutions)

\* C15: twoOptSwap is an involution: for every tour t and indices
\* 0 <= i < k < length(t), twoOptSwap(twoOptSwap(t, i, k), i, k) equals t
C15_SwapInvolution ==
  \A t \in HeldTours : \A i, k \in 0..(Len(t) - 1) :
    i < k => twoOptSwap(twoOptSwap(t, i, k), i, k) = t

\* tabuSearch holds a tour of seven points that it has reached by swaps; a
\* swap of a segment of three or more points changes it and the second swap
\* restores it
C15_Witness ==
  /\ engine = "tabu" /\ pc = "done" /\ Len(nodes) = 7
  /\ currentSolution # nodes
  /\ \E i, k \in 0..(Len(currentSolution) - 1) :
       /\ i + 2 <= k
       /\ twoOptSwap(currentSolution, i, k) # currentSolution
       /\ twoOptSwap(twoOptSwap(currentSolution, i, k), i, k) = currentSolution

\* ----------------------------------------------------------------------
\* calculateTourDistance on coordinates that are not integers
\* ----------------------------------------------------------------------
\* A double d with 0 <= d < 8 that is a multiple of 2^-51 is the pair
\* <<hi, lo>> with d = (hi * 2^27 + lo) * 2^-51 and 0 <= lo < 2^27.  Below 4
\* every such multiple is a double; from 4 to 8 the doubles are the even ones.
Limb == 134217728

Four == <<67108864, 0>>

exactAdd(a, b) ==
  LET lo == a[2] + b[2]
  IN <<a[1] + b[1] + (lo \div Limb), lo % Limb>>

\* a - b, for a >= b
exactSub(a, b) ==
  LET lo == a[2] - b[2]
  IN IF lo >= 0 THEN <<a[1] - b[1], lo>> ELSE <<a[1] - b[1] - 1, lo + Limb>>

less(a, b) == a[1] < b[1] \/ (a[1] = b[1] /\ a[2] < b[2])

\* round to nearest, ties to the even significand
roundToDouble(v) ==
  IF less(v, Four) \/ v[2] % 2 = 0 THEN v
  ELSE IF v[2] % 4 = 1 THEN exactSub(v, <<0, 1>>)
  ELSE exactAdd(v, <<0, 1>>)

\* a + b in double arithmetic
doubleAdd(a, b) == roundToDouble(exactAdd(a, b))

\* Math.hypot(a.x - b.x, 0), for two points with the same y: |a.x - b.x|, and
\* the difference of two doubles below 4 that are multiples of 2^-51 is exact
distanceOnLine(a, b) == IF less(a.x, b.x) THEN exactSub(b.x, a.x) ELSE exactSub(a.x, b.x)

\* the for loop of calculateTourDistance, from index i on, with dist so far
RECURSIVE sumLegsOnLine(_, _, _)
sumLegsOnLine(tour, i, dist) ==
  IF i >= Len(tour) - 1 THEN dist
  ELSE sumLegsOnLine(tour, i + 1, doubleAdd(dist, distanceOnLine(tour[i + 1], tour[i + 2])))

\* calculateTourDistance for points with the same y
calculateTourDistanceOnLine(tour) ==
  doubleAdd(sumLegsOnLine(tour, 0, <<0, 0>>), distanceOnLine(tour[Len(tour)], tour[1]))

\* The points (0, 0), (2, 0) and (2.1, 0): parseFloat("2.1") is the double
\* 4728779608739021 * 2^-51
DecimalInstance ==
  <<[id |-> 1, x |-> <<0, 0>>], [id |-> 2, x |-> <<33554432, 0>>],
    [id |-> 3, x |-> <<35232153, 80530637>>]>>

\* the tours of the three points
DecimalTours ==
  {[p \in 1..3 |-> DecimalInstance[f[p]]] :
     f \in {g \in [1..3 -> 1..3] : \A p, q \in 1..3 : p # q => g[p] # g[q]}}

\* tour, started r places later
Rotate(tour, r) == SubSeq(tour, r + 1, Len(tour)) \o SubSeq(tour, 1, r)

\* C16: calculateTourDistance gives the same length for a tour, for every
\* cyclic rotation of it and for its full reversal
C16_RotationReversalInvariant ==
  /\ \A t \in HeldTours \ {<<>>} :
       /\ \A r \in 0..(Len(t) - 1) :
            calculateTourDistance(Rotate(t, r)) = calculateTourDistance(t)
       /\ calculateTourDistance(Reverse(t)) = calculateTourDistance(t)
  /\ \A t \in DecimalTours :
       /\ \A r \in 0..(Len(t) - 1) :
            calculateTourDistanceOnLine(Rotate(t, r)) = calculateTourDistanceOnLine(t)
       /\ calculateTourDistanceOnLine(Reverse(t)) = calculateTourDistanceOnLine(t)

\* C17: on a non-empty input tabuSearch executes exactly maxIterations
\* iterations of its main loop and then returns a result: every step of the
\* loop is one iteration that raises the counter by one, whether or not a
\* move is made, the return is not possible before the counter has reached
\* maxIterations, and the next step is always possible
C17_FullBudget ==
  /\ []((engine = "tabu" /\ Len(nodes) > 0) =>
          /\ pc # "error"
          /\ iter <= params.maxIterations
          /\ pc = "start" => ENABLED TabuStart
          /\ (pc = "loop" /\ iter < params.maxIterations) =>
               (ENABLED TabuIterate /\ ~ENABLED TabuReturn)
          /\ (pc = "loop" /\ iter = params.maxIterations) => ENABLED TabuReturn
          /\ pc = "done" => iter = params.maxIterations)
  /\ [][(engine = "tabu" /\ pc = "loop") =>
          \/ iter' = iter + 1 /\ pc' = "loop"
          \/ iter' = iter /\ iter = params.maxIterations /\ pc' = "done"]_vars

\* tabuSearch has returned after three iterations of which at least one made
\* a move and at least one was skipped
C17_Witness ==
  /\ engine = "tabu" /\ pc = "done"
  /\ Len(nodes) = 3
  /\ params.maxIterations = 3 /\ iter = 3
  /\ Len(moves) >= 1 /\ Len(moves) < iter

\* the reversals <<i, k>> of a tour of n points that an iteration examines
Reversals(n) == {m \in (1..(n - 2)) \X (2..(n - 1)) : m[1] < m[2]}

\* the length of the neighbour of cur by the reversal m
neighbourLength(cur, m) == calculateTourDistance(twoOptSwap(cur, m[1], m[2]))

\* the reversals whose neighbour is acceptable: the move key is not tabu, or
\* the neighbour is strictly shorter than the best length so far
Acceptable(cur, tabu, best) ==
  {m \in Reversals(Len(cur)) :
     \/ moveKey(cur[m[1] + 1].id, cur[m[2] + 1].id) \notin tabu
     \/ neighbourLength(cur, m) < best}

\* a comes before b in the scan order of the nested loops
ScannedBefore(a, b) == a[1] < b[1] \/ (a[1] = b[1] /\ a[2] < b[2])

\* the first acceptable reversal of minimum length
FirstShortest(cur, tabu, best) ==
  CHOOSE m \in Acceptable(cur, tabu, best) :
    \A o \in Acceptable(cur, tabu, best) \ {m} :
      \/ neighbourLength(cur, m) < neighbourLength(cur, o)
      \/ neighbourLength(cur, m) = neighbourLength(cur, o) /\ ScannedBefore(m, o)

\* C18: in each tabuSearch iteration a neighbour is acceptable exactly when
\* its move key is not tabu or its length is strictly below the best length so
\* far, and when at least one neighbour is acceptable the new current tour is
\* the first, in scan order, of the acceptable neighbours of minimum length,
\* whether or not it is shorter than the current tour; its key is the move
\* recorded
C18_AcceptanceRule ==
  [][(engine = "tabu" /\ pc = "loop" /\ iter' = iter + 1
        /\ Acceptable(currentSolution, tabuList, bestDistance) # {}) =>
       LET m == FirstShortest(currentSolution, tabuList, bestDistance)
       IN /\ currentSolution' = twoOptSwap(currentSolution, m[1], m[2])
          /\ moves' = Append(moves, moveKey(currentSolution[m[1] + 1].id,
                                            currentSolution[m[2] + 1].id))]_vars

\* tabuSearch has accepted a neighbour longer than the tour it replaced (the
\* current tour is longer than the best one) after at least two moves
C18_Witness ==
  /\ engine = "tabu" /\ pc = "loop" /\ Len(nodes) = 4
  /\ Len(moves) >= 2
  /\ calculateTourDistance(currentSolution) > bestDistance
  /\ Acceptable(currentSolution, tabuList, bestDistance) # {}

\* C19: when no neighbour qualifies in a tabuSearch iteration (every move key
\* is tabu and no neighbour beats the best length, or the tour has no
\* neighbour at all), the iteration leaves the current tour, the best tour,
\* bestDistance, tabuList and tabuQueue unchanged
C19_SkipChangesNothing ==
  [][(engine = "tabu" /\ pc = "loop" /\ iter' # iter
        /\ Acceptable(currentSolution, tabuList, bestDistance) = {}) =>
       /\ currentSolution' = currentSolution
       /\ bestSolution' = bestSolution
       /\ bestDistance' = bestDistance
       /\ tabuList' = tabuList
       /\ tabuQueue' = tabuQueue]_vars

\* tabuSearch on three points has made a move, then skipped an iteration
\* because the key of its only neighbour was tabu, and would skip again
C19_Witness ==
  /\ engine = "tabu" /\ pc = "loop" /\ Len(nodes) = 3
  /\ Len(moves) >= 1 /\ iter > Len(moves)
  /\ Reversals(Len(currentSolution)) # {}
  /\ Acceptable(currentSolution, tabuList, bestDistance) = {}

\* C20: throughout a tabuSearch run the point at position 0 of the current
\* tour and of the best tour is the first point of the input, and so is the
\* first point of the tour returned
C20_FirstPointFixed ==
  (engine = "tabu" /\ pc \in {"loop", "done"} /\ Len(nodes) > 0) =>
    /\ Len(currentSolution) = Len(nodes) /\ currentSolution[1] = nodes[1]
    /\ Len(bestSolution) = Len(nodes) /\ bestSolution[1] = nodes[1]
    /\ pc = "done" => result.bestTour[1] = nodes[1]

\* tabuSearch on four points has returned after two moves or more, with a
\* best tour that is not the input order and a current tour that differs
\* from the best one
C20_Witness ==
  /\ engine = "tabu" /\ pc = "done" /\ Len(nodes) = 4
  /\ Len(moves) >= 2
  /\ bestSolution # nodes /\ currentSolution # bestSolution
  /\ currentSolution[1] = nodes[1] /\ result.bestTour[1] = nodes[1]

\* the points not yet placed when an ant chooses the p-th point of tour
leftBefore(tour, p) ==
  {u \in 0..(Len(nodes) - 1) : \A q \in 1..(p - 1) : tour[q].id # u + 1}

\* C21: whenever an ant chooses its next point among unvisited candidates of
\* which at least one has non-zero distance and every such one has positive
\* weight (the normalization sum is > 0), the point chosen is not at distance
\* 0 from the current point
C21_ZeroDistanceExcluded ==
  (engine = "ant" /\ pc = "loop" /\ antK >= 1) =>
    \A p \in 2..Len(currentAntTourNodes) :
      LET current == currentAntTourNodes[p - 1].id - 1
          weighted == {u \in leftBefore(currentAntTourNodes, p) :
                         distances(nodes, current, u) # 0}
      IN (/\ weighted # {}
          /\ \A u \in weighted :
               probClass(pheromones[current + 1][u + 1], params.alpha) = "pos") =>
           distances(nodes, current, currentAntTourNodes[p].id - 1) # 0

\* C22: for every tour t and indices 0 <= i < k < length(t), twoOptSwap(t, i, k)
\* has the length of t, equals t outside positions i..k, holds the elements
\* of positions i..k of t in reverse order, and leaves t as it was
C22_SwapReversesRange ==
  \A t \in HeldTours : \A i, k \in 0..(Len(t) - 1) :
    i < k =>
      LET newTour == twoOptSwap(t, i, k)
      IN /\ Len(newTour) = Len(t)
         /\ \A p \in 0..(Len(t) - 1) :
              newTour[p + 1] = IF i <= p /\ p <= k THEN t[i + k - p + 1] ELSE t[p + 1]
         /\ tourAfterSwap(t, i, k) = t

\* antColony has returned a best path of four points, of which a swap of the
\* first three positions moves the first point to the third place and keeps
\* the fourth
C22_Witness ==
  /\ engine = "ant" /\ pc = "done" /\ Len(bestPath) = 4
  /\ bestPath # nodes
  /\ twoOptSwap(bestPath, 0, 2)[3] = bestPath[1]
  /\ twoOptSwap(bestPath, 0, 2)[4] = bestPath[4]
  /\ twoOptSwap(bestPath, 0, 2) # bestPath

\* a and b hold the same points, each as many times
SamePoints(a, b) ==
  /\ Len(a) = Len(b)
  /\ \A x \in Range(a) \cup Range(b) :
       Cardinality({q \in 1..Len(a) : a[q] = x}) = Cardinality({q \in 1..Len(b) : b[q] = x})

\* C23: for every non-empty tour, twoOptSwapWithBestImprovement returns (the
\* while loop ends) a tour of the same points that is no longer than its
\* input and that no reversal of positions i..k with 1 <= i < k < n makes
\* strictly shorter
C23_LocalOptimum ==
  \A t \in HeldTours :
    Len(t) > 0 =>
      LET best == twoOptSwapWithBestImprovement(t)
      IN /\ SamePoints(best, t)
         /\ calculateTourDistance(best) <= calculateTourDistance(t)
         /\ \A m \in Reversals(Len(best)) :
              neighbourLength(best, m) >= calculateTourDistance(best)

\* tabuSearch holds a current tour of five points that the first pass of the
\* for loops shortens without reaching a local optimum: the while loop runs
\* the loops again, and they shorten the tour again
C23_Witness ==
  /\ engine = "tabu" /\ pc = "loop" /\ Len(nodes) = 5
  /\ LET pass == twoOptPass(currentSolution, FALSE, 1, 2)
     IN /\ pass[2]
        /\ twoOptPass(pass[1], FALSE, 1, 2)[2]
        /\ calculateTourDistance(twoOptSwapWithBestImprovement(currentSolution))
             < calculateTourDistance(pass[1])

\* the child of tour1 and tour2 for the range start..end is as described: a
\* permutation of the input, tour1 at the positions of the range, and at the
\* other positions, from left to right, the points of tour2 that are not in
\* the range of tour1, in the order they have in tour2
ChildAsDescribed(child, tour1, tour2, start, end) ==
  LET segmentIds == {tour1[p].id : p \in (start + 1)..(end + 1)}
  IN /\ IsPermutation(child)
     /\ \A p \in (start + 1)..(end + 1) : child[p] = tour1[p]
     /\ SubSeq(child, 1, start) \o SubSeq(child, end + 2, Len(child))
          = SelectSeq(tour2, LAMBDA node : node.id \notin segmentIds)

\* C24: combineToursWithCrossover applied to two members of the reference set
\* (two permutations of the input), for every two random positions, returns a
\* child that is a permutation of the input, equals the first parent on the
\* range between the positions, and holds at the other positions the unused
\* points in the order of the second parent; the combination step leaves the
\* reference set, hence both parents, as it was
C24_CrossoverChild ==
  /\ [](engine \in ScatterEngines =>
          \A p, q \in 1..Len(referenceSet) : \A a, b \in 0..(Len(nodes) - 1) :
            ChildAsDescribed(combineToursWithCrossover(referenceSet[p], referenceSet[q], a, b),
                             referenceSet[p], referenceSet[q], Min(a, b), Max(a, b)))
  /\ [][(engine \in ScatterEngines /\ Len(newSolutions') > Len(newSolutions)) =>
          referenceSet' = referenceSet]_vars

\* scatterSearch has combined two different tours of four points into a child
\* that is neither of them
C24_Witness ==
  /\ engine \in ScatterEngines /\ pc = "loop" /\ Len(nodes) = 4
  /\ Len(referenceSet) >= 2 /\ Len(newSolutions) >= 1
  /\ \E p, q \in 1..Len(referenceSet) : \E a, b \in 0..3 :
       /\ a > b /\ referenceSet[p] # referenceSet[q]
       /\ combined = combineToursWithCrossover(referenceSet[p], referenceSet[q], a, b)
       /\ combined # referenceSet[p] /\ combined # referenceSet[q]

\* positions i and j of the input, 0-based, are the two ends of an edge of tour
IsEdgeOf(tour, i, j) ==
  \E p \in 1..Len(tour) :
    {tour[p].id, tour[(p % Len(tour)) + 1].id} = {i + 1, j + 1}

\* C25: in each antColony generation on at least 3 points, after evaporation
\* and deposit every pair (i, j) that is not an edge of the global-best tour
\* has (1 - evaporation) times its previous pheromone, every edge of the
\* global-best tour has that value plus Q / bestDistance, in both directions,
\* and the pheromone matrix is symmetric after every generation
C25_EvaporationAndDeposit ==
  /\ []((engine = "ant" /\ pc \in {"loop", "done"} /\ Len(nodes) >= 3) =>
          \A i, j \in 1..Len(nodes) : pheromones[i][j] = pheromones[j][i])
  /\ [][(engine = "ant" /\ pc = "loop" /\ iter' = iter + 1 /\ Len(nodes) >= 3) =>
          \A i, j \in 0..(Len(nodes) - 1) :
            LET decayed == RMul(pheromones[i + 1][j + 1],
                                RSub(<<1, 1>>, params.evaporation))
            IN pheromones'[i + 1][j + 1] =
                 IF IsEdgeOf(bestPath', i, j)
                 THEN RAdd(decayed, RDiv(params.Q, bestDistance'))
                 ELSE decayed]_vars

\* antColony on four distinct points has ended its second generation: the
\* edges of the best path hold more pheromone than the other pairs, which
\* have decayed twice
C25_Witness ==
  /\ engine = "ant" /\ pc = "loop" /\ Len(nodes) = 4 /\ iter = 2 /\ antK = 0
  /\ bestDistance > 0 /\ params.evaporation = <<1, 2>>
  /\ \E i, j \in 0..3 :
       /\ i # j /\ ~IsEdgeOf(bestPath, i, j)
       /\ pheromones[i + 1][j + 1] = <<1, 4>>
  /\ \A i, j \in 0..3 :
       IsEdgeOf(bestPath, i, j) =>
         /\ pheromones[i + 1][j + 1] = pheromones[j + 1][i + 1]
         /\ pheromones[i + 1][j + 1] # <<1, 4>>

\* the input positions of the points that are not among the first placed
\* points of tour
notPlaced(tour, placed) ==
  {j \in 1..Len(nodes) : \A q \in 1..placed : tour[q].id # nodes[j].id}

\* every point after the first is, among the points not yet placed, the first
\* in input order of those nearest to its predecessor
NearestFirst(tour) ==
  \A p \in 2..Len(tour) :
    LET left == notPlaced(tour, p - 1)
        nearest == {j \in left :
                      \A o \in left :
                        calculateEuclideanDistance(tour[p - 1], nodes[j])
                          <= calculateEuclideanDistance(tour[p - 1], nodes[o])}
    IN tour[p] = nodes[CHOOSE j \in nearest : \A o \in nearest : j <= o]

\* C26: on a non-empty input (ids are unique), nearestNeighbor returns, for
\* every start it can draw, a permutation of the input that begins with the
\* start point and in which every later point has minimum distance to its
\* predecessor among the points not yet placed, the first in input order
\* among equal minima
C26_NearestNeighbour ==
  (engine \in {"ant", "scatter"} /\ Len(nodes) > 0) =>
    \A start \in 0..(Len(nodes) - 1) :
      LET tour == nearestNeighbor(nodes, start)
      IN /\ IsPermutation(tour)
         /\ tour[1] = nodes[start + 1]
         /\ NearestFirst(tour)

\* scatterSearch holds the nearest-neighbour tour of four points, built from a
\* start other than the first point, in which the second point was one of two
\* points at the same distance from the start
C26_Witness ==
  /\ engine = "scatter" /\ pc \in {"loop", "done"} /\ Len(nodes) = 4
  /\ initialSolution[1] # nodes[1]
  /\ \E start \in 1..3 : initialSolution = nearestNeighbor(nodes, start)
  /\ NearestFirst(initialSolution)
  /\ \E j, o \in notPlaced(initialSolution, 1) :
       /\ j < o /\ initialSolution[2] = nodes[j]
       /\ calculateEuclideanDistance(initialSolution[1], nodes[j])
            = calculateEuclideanDistance(initialSolution[1], nodes[o])

\* tours is sorted by ascending length
SortedByLength(tours) ==
  \A p \in 1..(Len(tours) - 1) :
    calculateTourDistance(tours[p]) <= calculateTourDistance(tours[p + 1])

\* solution is strictly shorter than every member of refSet
ShorterThanAll(solution, refSet) ==
  \A p \in 1..Len(refSet) :
    calculateTourDistance(solution) < calculateTourDistance(refSet[p])

\* C27: in the reference-set update of scatterSearch a new solution enters the
\* reference set exactly when it is strictly shorter than every current
\* member; after an admission the reference set is sorted by ascending
\* length, the admitted tour is its first member, its other members are
\* members it had before, and its size is at most eliteSolutionsSize; a
\* solution that is not admitted leaves the reference set as it was
C27_Admission ==
  [][(pc = "update" /\ iter' = iter + 1) =>
       LET solution == newSolutions[iter + 1]
       IN IF ShorterThanAll(solution, referenceSet)
          THEN /\ referenceSet' # referenceSet
               /\ SortedByLength(referenceSet')
               /\ referenceSet'[1] = solution
               /\ Len(referenceSet') <= params.eliteSolutionsSize
               /\ Len(referenceSet') = Min(Len(referenceSet) + 1, params.eliteSolutionsSize)
               /\ SubSeq(referenceSet', 2, Len(referenceSet'))
                    = SubSeq(referenceSet, 1, Len(referenceSet') - 1)
          ELSE referenceSet' = referenceSet]_vars

\* the update loop has admitted its two new solutions, one after the other,
\* into a full reference set, which has lost the two members it had
C27_Witness ==
  /\ pc = "update" /\ iter = 2 /\ Len(newSolutions) = 2
  /\ Len(candidatePool) = params.eliteSolutionsSize
  /\ ShorterThanAll(newSolutions[1], candidatePool)
  /\ calculateTourDistance(newSolutions[2]) < calculateTourDistance(newSolutions[1])
  /\ referenceSet[1] = newSolutions[2]
  /\ referenceSet[2] = newSolutions[1]
  /\ Len(referenceSet) = params.eliteSolutionsSize

\* C28: when the orchestrator starts the three workers concurrently with
\* export enabled, no interleaving of their calls makes a worker fail: no
\* worker ends without having written its file and posted its results
C28_NoWorkerFails ==
  \A w \in Algorithms :
    /\ workerPc[w] # "failed"
    /\ workerPc[w] = "closed" => w \in posted

\* the 2-opt improvement of the nearest-neighbour tour of the run
improvedInitial == twoOptSwapWithBestImprovement(initialSolution)

\* C29: in the scatterSearch variant that builds its population from copies
\* of one nearest-neighbour tour (non-empty input, populationSize >= 1,
\* eliteSolutionsSize >= 1, any maxIterations), the reference set is at every
\* point of the run the initial one, min(populationSize, eliteSolutionsSize)
\* copies of the 2-opt improvement of the nearest-neighbour tour, every new
\* solution is that tour again, and the best tour returned is that tour
C29_NothingAdmitted ==
  (/\ engine = "scatter" /\ pc \in {"loop", "done"} /\ Len(nodes) > 0
   /\ params.populationSize >= 1 /\ params.eliteSolutionsSize >= 1) =>
    /\ referenceSet = [p \in 1..Min(params.populationSize, params.eliteSolutionsSize) |->
                         improvedInitial]
    /\ \A p \in 1..Len(newSolutions) : newSolutions[p] = improvedInitial
    /\ pc = "done" =>
         /\ result.bestTour = improvedInitial
         /\ result.bestDistance = calculateTourDistance(improvedInitial)

\* the variant has returned after an iteration that combined the two members
\* of its reference set, for a nearest-neighbour tour of four points that
\* 2-opt shortens
C29_Witness ==
  /\ engine = "scatter" /\ pc = "done" /\ Len(nodes) = 4
  /\ params.maxIterations >= 1 /\ iter >= 1
  /\ Len(referenceSet) = 2
  /\ combined = improvedInitial
  /\ calculateTourDistance(improvedInitial) < calculateTourDistance(initialSolution)
  /\ result.bestTour = improvedInitial

\* the best tour of tabuSearch or antColony
storedBest == IF engine = "tabu" THEN bestSolution ELSE bestPath

\* C30: throughout the main loop of tabuSearch and of antColony, and at the
\* return, bestDistance is the length of the stored best tour; no step of the
\* loop increases bestDistance, and a step that replaces the best tour
\* replaces it by a strictly shorter tour
C30_BestIsConsistent ==
  /\ []((engine \in {"tabu", "ant"} /\ pc \in {"loop", "done"}) =>
          bestDistance = calculateTourDistance(storedBest))
  /\ [][(engine \in {"tabu", "ant"} /\ pc = "loop") =>
          /\ bestDistance' <= bestDistance
          /\ storedBest' # storedBest =>
               calculateTourDistance(storedBest') < calculateTourDistance(storedBest)]_vars

\* antColony on four points has returned a best path that replaced the
\* nearest-neighbour tour and is strictly shorter, after an ant whose tour
\* was not shorter than the best
C30_Witness ==
  /\ engine = "ant" /\ pc = "done" /\ Len(nodes) = 4
  /\ iter >= 1
  /\ bestDistance < initialDistance
  /\ bestDistance = calculateTourDistance(bestPath)
  /\ Len(currentAntTourNodes) = 4
  /\ currentAntTourNodes # bestPath
  /\ calculateTourDistance(currentAntTourNodes) >= bestDistance

====
